---- MODULE Spec2Model ----
(***************************************************************************)
(* Model of fiftyone/utils/activitynet.py: the sample-selection and        *)
(* incremental-download planner (_downloaded_necessary_samples with        *)
(* _attempt_to_download and _do_download) and the class filter             *)
(* (_get_matching_samples).                                                *)
(*                                                                         *)
(* Python values are encoded as follows.                                   *)
(*   - an optional integer (max_samples, seed, requested_num) is a         *)
(*     sequence: <<>> is None and <<n>> is the integer n;                  *)
(*   - a list is a sequence; a dict is the sequence of its keys in         *)
(*     insertion order (the values are the records' annotation infos,      *)
(*     which are a function of the key);                                   *)
(*   - a set is a set: turning it into a list (list(s)) yields its         *)
(*     elements in hash order, which for str keys changes from one         *)
(*     interpreter process to the next, so it is a choice among all        *)
(*     orderings of the set;                                               *)
(*   - the module-level random generator is a number (its state); seed     *)
(*     and shuffle are deterministic functions of that state.              *)
(***************************************************************************)
EXTENDS Integers, Sequences, FiniteSets

\* ------------------------------------------------------------------ bounds

\* Number of sample ids of the annotation database.
NumIds == 3
\* Largest non-negative max_samples tried.
MaxCap == 2
\* Number of distinct explicit seeds tried.
NumSeeds == 2

\* Number of records of raw_annotations["database"] the class filter reads.
NumRecords == 2
\* Number of leaf classes of the taxonomy.
NumClasses == 2

IDS == 1..NumIds
RecordIds == 1..NumRecords
Classes == 1..NumClasses
Seeds == 0..(NumSeeds - 1)

None == <<>>
Some(n) == <<n>>
OptInts(S) == {None} \cup {Some(n) : n \in S}

\* max_samples as callers may pass it: None, a negative number, 0..MaxCap.
CapValues == OptInts((0 - 1)..MaxCap)

\* ------------------------------------------------------- python primitives

\* Python truthiness of an optional integer: None and 0 are falsy.
Truthy(x) == x # None /\ x[1] # 0

Min(a, b) == IF a < b THEN a ELSE b
Max(a, b) == IF a > b THEN a ELSE b

Range(s) == {s[i] : i \in 1..Len(s)}

\* Variant: the slice stops one element early, lst[:n - 1] for n > 0.
SliceOneShort(lst, n) ==
    IF n = None THEN lst
    ELSE IF n[1] > 0 THEN SubSeq(lst, 1, Min(n[1] - 1, Len(lst)))
    ELSE <<>>

\* lst[:n]: everything for None, the first n for n >= 0, all but the last
\* -n for n < 0.
Slice(lst, n) ==
    IF n = None THEN lst
    ELSE IF n[1] >= 0 THEN SubSeq(lst, 1, Min(n[1], Len(lst)))
    ELSE SubSeq(lst, 1, Max(Len(lst) + n[1], 0))

\* The ascending enumeration of a set of ids: the iteration order of a dict
\* whose keys were inserted while iterating raw_annotations["database"].
RECURSIVE Ascending(_)
Ascending(S) ==
    IF S = {} THEN <<>>
    ELSE LET m == CHOOSE x \in S : \A y \in S : x <= y
         IN  <<m>> \o Ascending(S \ {m})

\* list(s) for a set s: every ordering of its elements.
Orderings(S) ==
    {s \in [1..Cardinality(S) -> S] : \A i, j \in 1..Cardinality(S) : i # j => s[i] # s[j]}

\* dict.update({i: ... for i in ids}): new keys are appended in order, keys
\* already there keep their place.
RECURSIVE DictUpdate(_, _)
DictUpdate(keys, ids) ==
    IF ids = <<>> THEN keys
    ELSE DictUpdate(IF Head(ids) \in Range(keys) THEN keys ELSE Append(keys, Head(ids)),
                    Tail(ids))

\* requested_num -= n, done only when requested_num is truthy.
Decrement(requested_num, n) ==
    IF Truthy(requested_num) THEN Some(requested_num[1] - n) ELSE requested_num

\* ------------------------------------------------------------------ random

\* random.seed(seed): the generator state is a function of the seed.
SeedState(s) == s % 16

\* One step of the generator.
NextRandom(r) == (5 * r + 3) % 16

Swap(lst, i, j) == [lst EXCEPT ![i] = lst[j], ![j] = lst[i]]

\* random.shuffle(lst): Fisher-Yates from the last position down, each
\* position p swapped with a position drawn below it from the generator.
\* Yields the shuffled list and the generator state left behind.
RECURSIVE ShuffleFrom(_, _, _)
ShuffleFrom(lst, p, r) ==
    IF p < 2 THEN [list |-> lst, rng |-> r]
    ELSE LET r2 == NextRandom(r)
             j  == (r2 % p) + 1
         IN  ShuffleFrom(Swap(lst, p, j), p - 1, r2)

Shuffle(lst, r) == ShuffleFrom(lst, Len(lst), r)

\* ------------------------------------------------------------------- state

VARIABLES
    \* inputs of _downloaded_necessary_samples
    all_class_samples,    \* dict: keys of the samples with all the classes
    any_class_samples,    \* dict: keys of the samples with some of the classes
    prev_downloaded_ids,  \* ids of the videos already in videos_dir
    max_samples,          \* optional integer
    seed,                 \* optional integer
    shuffle,              \* boolean
    \* the environment
    fetch_ok,             \* the ids whose video _do_download can fetch
    rng,                  \* state of the random module's generator
    \* locals of _downloaded_necessary_samples
    pc,
    requested_samples,    \* dict: keys in insertion order
    requested_num,
    num_downloaded_samples,
    dl_all_class_ids,
    dl_any_class_ids,
    dl_any_bound,         \* whether the local dl_any_class_ids is assigned
    \* locals of _attempt_to_download
    ids,
    idx,                  \* position of the for loop in ids
    downloaded,
    \* inputs and locals of _get_matching_samples
    database,             \* raw_annotations["database"]: id -> subset, labels
    classes,              \* the requested classes
    split,
    cursor,               \* position of the for loop in the database
    \* inputs and locals of download_activitynet_split
    given_classes,        \* the classes argument: None or a list of classes
    result,               \* None until the function returns its tuple
    labels_json,          \* the keys _write_annotations wrote to labels.json
    \* inputs and locals of load_open_images_v6 and _load_open_images_split
    oi_label_types,       \* the label_types argument, then the parsed list
    oi_split,             \* the split argument
    oi_splits,            \* the splits argument
    splits_list,          \* what _parse_splits returned
    split_pos,            \* position of the for loop in splits_list
    valid_ids,            \* None, a set, then a list
    dataset,              \* the samples added, as <<split, image id>>
    images,               \* the image files in dataset_dir, as <<split, image id>>
    \* history
    attempts,             \* the ids _do_download was called for, in order
    run,                  \* which call of the planner this is
    first_plan            \* what the first call returned

inputs == <<all_class_samples, any_class_samples, prev_downloaded_ids,
            max_samples, seed, shuffle, fetch_ok>>
locals == <<requested_samples, requested_num, num_downloaded_samples,
            dl_all_class_ids, dl_any_class_ids, dl_any_bound>>
loop == <<ids, idx, downloaded>>
history == <<run, first_plan>>
filter == <<database, classes, split, cursor>>
caller == <<given_classes, result, labels_json>>
oi == <<oi_label_types, oi_split, oi_splits, splits_list, split_pos, valid_ids,
        dataset, images>>
vars == <<inputs, rng, pc, locals, loop, attempts, history, filter, caller, oi>>

set_all_ids == Range(all_class_samples)
set_any_ids == Range(any_class_samples)
set_downloaded_ids == prev_downloaded_ids

\* What the planner returns: (requested_samples, num_downloaded_samples).
Plan == [selected |-> requested_samples, num_downloaded |-> num_downloaded_samples]

\* ----------------------------------------------------------------- planner

\* Variant: the gate tests only "requested_num is None or requested_num >= 0",
\* so a used-up budget of 0 does not close the later tiers.
MoreRequestedAtZero(n) == n = None \/ n[1] >= 0

\* Variant: the gate tests only "if requested_num", which None fails.
MoreRequestedTruthy(n) == Truthy(n)

\* "if requested_num is None or requested_num": the gate of tiers 2, 3, 4.
MoreRequested(n) == n = None \/ Truthy(n)

\* Variant: the downloaded ids are not taken out of the candidates.
NotDownloadedKeepsAll(set_ids, dl_ids) == set_ids

\* set_ids - set(dl_ids): the candidates of a download tier.
NotDownloaded(set_ids, dl_ids) == set_ids \ Range(dl_ids)

\* Variant: _attempt_to_download has no early return.
EnoughDownloadedNever(got, num_samples) == FALSE

\* Variant: the early return compares with > instead of >=.
EnoughDownloadedLate(got, num_samples) ==
    num_samples # None /\ Len(got) > num_samples[1]

\* The early return of _attempt_to_download.
EnoughDownloaded(got, num_samples) ==
    num_samples # None /\ Len(got) >= num_samples[1]

\* _do_download(url, output_path): success, or a caught exception.
DoDownload(sample_id) == sample_id \in fetch_ok

\* Variant: the id is appended whether or not the download succeeded.
CollectAlways(got, sample_id, success) == Append(got, sample_id)

\* The loop body's effect on the list of downloaded ids.
Collect(got, sample_id, success) ==
    IF success THEN Append(got, sample_id) ELSE got

\* Variant: a failed download is tried again instead of skipped.
NextIndexRetry(i, success) == IF success THEN i + 1 ELSE i

\* The for loop moves to the next id after a success and, by "continue",
\* after a failure.
NextIndex(i, success) == i + 1

\* "if shuffle: random.shuffle(lst)" on the generator state r.
MaybeShuffle(lst, r) ==
    IF shuffle THEN Shuffle(lst, r) ELSE [list |-> lst, rng |-> r]

\* The state after "if shuffle: if seed is not None: random.seed(seed)".
Seeded(r) == IF shuffle /\ seed # None THEN SeedState(seed[1]) ELSE r

\* The planner and the class filter read nothing of their caller nor of
\* the Open Images loader.
InitCaller ==
    /\ given_classes = None
    /\ result = None
    /\ labels_json = <<>>

InitOpenImages ==
    /\ oi_label_types = None
    /\ oi_split = None
    /\ oi_splits = None
    /\ splits_list = None
    /\ split_pos = 0
    /\ valid_ids = None
    /\ dataset = <<>>
    /\ images = {}

InitUnused == InitCaller /\ InitOpenImages

InitLocals ==
    /\ requested_samples = <<>>
    /\ requested_num = max_samples
    /\ num_downloaded_samples = 0
    /\ dl_all_class_ids = <<>>
    /\ dl_any_class_ids = <<>>
    /\ dl_any_bound = FALSE
    /\ ids = <<>>
    /\ idx = 1
    /\ downloaded = <<>>
    /\ attempts = <<>>

\* The planner is entered with the two dicts its caller built: disjoint key
\* sets, each in database order (the ids are numbered in that order).
Init ==
    /\ \E kind \in [IDS -> {"all", "any", "none"}] :
          /\ all_class_samples = Ascending({i \in IDS : kind[i] = "all"})
          /\ any_class_samples = Ascending({i \in IDS : kind[i] = "any"})
          /\ prev_downloaded_ids \in SUBSET IDS
          /\ fetch_ok \in SUBSET {i \in IDS : kind[i] # "none" /\ i \notin prev_downloaded_ids}
    /\ max_samples \in CapValues
    /\ shuffle \in BOOLEAN
    \* seed is read only under shuffle
    /\ seed \in IF shuffle THEN OptInts(Seeds) ELSE {None}
    \* the generator is seeded from the system's entropy when random is
    \* imported; its state is read only by a shuffle that no seed precedes
    /\ rng \in IF shuffle /\ seed = None THEN Seeds ELSE {0}
    /\ InitLocals
    /\ InitUnused
    /\ pc = "tier1"
    /\ run = 1
    /\ first_plan = None
    \* the planner reads nothing of the class filter
    /\ database = <<>>
    /\ classes = {}
    /\ split = "validation"
    /\ cursor = 0

\* Lines 210-233: tier 1, the downloaded samples with all the classes.
Tier1 ==
    /\ pc = "tier1"
    /\ \E order \in Orderings(set_all_ids \cap set_downloaded_ids) :
          LET sh      == MaybeShuffle(order, Seeded(rng))
              add_ids == Slice(sh.list, requested_num)
          IN  /\ dl_all_class_ids' = sh.list
              /\ rng' = sh.rng
              /\ requested_samples' = DictUpdate(requested_samples, add_ids)
              /\ requested_num' = Decrement(requested_num, Len(add_ids))
    /\ pc' = "tier2"
    /\ UNCHANGED <<inputs, num_downloaded_samples, dl_any_class_ids, dl_any_bound,
                   loop, attempts, history, caller, oi, filter>>

\* Lines 235-245: tier 2, the downloaded samples with some of the classes.
Tier2 ==
    /\ pc = "tier2"
    /\ IF MoreRequested(requested_num)
       THEN \E order \in Orderings(set_any_ids \cap set_downloaded_ids) :
               LET sh      == MaybeShuffle(order, rng)
                   add_ids == Slice(sh.list, requested_num)
               IN  /\ dl_any_class_ids' = sh.list
                   /\ dl_any_bound' = TRUE
                   /\ rng' = sh.rng
                   /\ requested_samples' = DictUpdate(requested_samples, add_ids)
                   /\ requested_num' = Decrement(requested_num, Len(add_ids))
       ELSE UNCHANGED <<dl_any_class_ids, dl_any_bound, rng, requested_samples,
                        requested_num>>
    /\ pc' = "tier3"
    /\ UNCHANGED <<inputs, num_downloaded_samples, dl_all_class_ids, loop, attempts,
                   history, caller, oi, filter>>

\* Lines 247-255 and 283-284: tier 3 calls _attempt_to_download on the
\* samples with all the classes that are not downloaded.
Tier3Begin ==
    /\ pc = "tier3"
    /\ IF MoreRequested(requested_num)
       THEN \E order \in Orderings(NotDownloaded(set_all_ids, dl_all_class_ids)) :
               LET sh == MaybeShuffle(order, rng)
               IN  /\ ids' = sh.list
                   /\ rng' = sh.rng
                   /\ idx' = 1
                   /\ downloaded' = <<>>
                   /\ pc' = IF sh.list = <<>> THEN "ret3" ELSE "dl3"
       ELSE /\ pc' = "tier4"
            /\ UNCHANGED <<loop, rng>>
    /\ UNCHANGED <<inputs, locals, attempts, history, caller, oi, filter>>

\* Lines 285-296: one iteration of the loop of _attempt_to_download, which
\* calls _do_download once.
Attempt ==
    /\ pc \in {"dl3", "dl4"}
    /\ idx <= Len(ids)
    /\ LET sample_id == ids[idx]
           success   == DoDownload(sample_id)
           got       == Collect(downloaded, sample_id, success)
           next      == NextIndex(idx, success)
           return    == (success /\ EnoughDownloaded(got, requested_num))
                        \/ next > Len(ids)
       IN  /\ attempts' = Append(attempts, sample_id)
           /\ downloaded' = got
           /\ idx' = next
           /\ pc' = IF ~return THEN pc
                    ELSE IF pc = "dl3" THEN "ret3" ELSE "ret4"
    /\ UNCHANGED <<inputs, rng, locals, ids, history, caller, oi, filter>>

\* Lines 257-263: tier 3 takes what _attempt_to_download returned.
Tier3End ==
    /\ pc = "ret3"
    /\ num_downloaded_samples' = num_downloaded_samples + Len(downloaded)
    /\ requested_samples' = DictUpdate(requested_samples, downloaded)
    /\ requested_num' = Decrement(requested_num, Len(downloaded))
    /\ pc' = "tier4"
    /\ UNCHANGED <<inputs, rng, dl_all_class_ids, dl_any_class_ids, dl_any_bound,
                   loop, attempts, history, caller, oi, filter>>

\* Lines 265-273 and 283-284: tier 4 calls _attempt_to_download on the
\* samples with some of the classes that are not downloaded. Reading
\* dl_any_class_ids when tier 2 never assigned it is a NameError.
Tier4Begin ==
    /\ pc = "tier4"
    /\ IF ~MoreRequested(requested_num)
       THEN /\ pc' = "done"
            /\ UNCHANGED <<loop, rng>>
       ELSE IF ~dl_any_bound
       THEN /\ pc' = "NameError"
            /\ UNCHANGED <<loop, rng>>
       ELSE \E order \in Orderings(NotDownloaded(set_any_ids, dl_any_class_ids)) :
               LET sh == MaybeShuffle(order, rng)
               IN  /\ ids' = sh.list
                   /\ rng' = sh.rng
                   /\ idx' = 1
                   /\ downloaded' = <<>>
                   /\ pc' = IF sh.list = <<>> THEN "ret4" ELSE "dl4"
    /\ UNCHANGED <<inputs, locals, attempts, history, caller, oi, filter>>

\* Lines 275-280: tier 4 takes what _attempt_to_download returned, and the
\* planner returns.
Tier4End ==
    /\ pc = "ret4"
    /\ num_downloaded_samples' = num_downloaded_samples + Len(downloaded)
    /\ requested_samples' = DictUpdate(requested_samples, downloaded)
    /\ pc' = "done"
    /\ UNCHANGED <<inputs, rng, requested_num, dl_all_class_ids, dl_any_class_ids,
                   dl_any_bound, loop, attempts, history, caller, oi, filter>>

Next == Tier1 \/ Tier2 \/ Tier3Begin \/ Attempt \/ Tier3End \/ Tier4Begin \/ Tier4End

Spec == Init /\ [][Next]_vars

\* --------------------------------------------------------- a second call

\* The planner is called again on the same inputs, with the same download
\* outcomes, in another interpreter process: a test run that is repeated.
\* What the first call returned is kept for comparison.
Rerun ==
    /\ pc = "done"
    /\ run = 1
    /\ run' = 2
    /\ first_plan' = Some(Plan)
    /\ pc' = "tier1"
    /\ requested_samples' = <<>>
    /\ requested_num' = max_samples
    /\ num_downloaded_samples' = 0
    /\ dl_all_class_ids' = <<>>
    /\ dl_any_class_ids' = <<>>
    /\ dl_any_bound' = FALSE
    /\ ids' = <<>>
    /\ idx' = 1
    /\ downloaded' = <<>>
    /\ attempts' = <<>>
    /\ rng' \in IF shuffle /\ seed = None THEN Seeds ELSE {0}
    /\ UNCHANGED <<inputs, filter, caller, oi>>

NextRerun == Next \/ Rerun

SpecRerun == Init /\ [][NextRerun]_vars

\* ------------------------------------------------------------ class filter

\* _SPLIT_MAP: ActivityNet's subset names to the split names.
SPLIT_MAP == [training |-> "train", testing |-> "test", validation |-> "validation"]

Subsets == DOMAIN SPLIT_MAP

\* Variant: the second test is an "if" instead of an "elif".
InAnyNotElif(class_set, annot_labels) == class_set \cap annot_labels # {}

\* Variant: a plain "else", so every other record of the split is kept.
InAnyElse(class_set, annot_labels) == ~(class_set \subseteq annot_labels)

\* "if class_set.issubset(annot_labels)".
InAll(class_set, annot_labels) == class_set \subseteq annot_labels

\* "elif class_set & annot_labels".
InAny(class_set, annot_labels) ==
    ~(class_set \subseteq annot_labels) /\ class_set \cap annot_labels # {}

\* _get_matching_samples is called with a list of classes and a split that
\* passed the check of download_activitynet_split and is not "test", on a
\* database whose records each have a subset and the labels of their
\* annotations.
InitMatch ==
    /\ database \in [RecordIds -> [subset : Subsets, labels : SUBSET Classes]]
    /\ classes \in SUBSET Classes
    /\ split \in {"train", "validation"}
    /\ cursor = 0
    /\ pc = "match"
    /\ all_class_samples = <<>>
    /\ any_class_samples = <<>>
    \* the class filter reads nothing of the planner
    /\ prev_downloaded_ids = {}
    /\ fetch_ok = {}
    /\ max_samples = None
    /\ seed = None
    /\ shuffle = FALSE
    /\ rng = 0
    /\ InitLocals
    /\ InitUnused
    /\ run = 1
    /\ first_plan = None

\* Lines 176-185: the two dicts are created and the split is looked up in
\* _SPLIT_MAP, whose keys are the subset names: a KeyError for a split that
\* is not one of them.
MatchBegin ==
    /\ pc = "match"
    /\ IF split \in DOMAIN SPLIT_MAP
       THEN /\ pc' = "scan"
            /\ cursor' = 1
       ELSE /\ pc' = "KeyError"
            /\ UNCHANGED cursor
    /\ UNCHANGED <<inputs, rng, locals, loop, attempts, history, caller, oi, database, classes,
                   split>>

\* Lines 186-196: one iteration of the loop over the database.
MatchStep ==
    /\ pc = "scan"
    /\ cursor <= NumRecords
    /\ LET sample_id    == cursor
           annot_info   == database[sample_id]
           annot_labels == annot_info.labels
           skip         == SPLIT_MAP[split] # annot_info.subset
       IN  /\ all_class_samples' =
                 IF ~skip /\ InAll(classes, annot_labels)
                 THEN Append(all_class_samples, sample_id) ELSE all_class_samples
           /\ any_class_samples' =
                 IF ~skip /\ InAny(classes, annot_labels)
                 THEN Append(any_class_samples, sample_id) ELSE any_class_samples
    /\ cursor' = cursor + 1
    /\ UNCHANGED <<prev_downloaded_ids, max_samples, seed, shuffle, fetch_ok, rng, pc,
                   locals, loop, attempts, history, caller, oi, database, classes, split>>

\* Line 198: the two dicts are returned.
MatchReturn ==
    /\ pc = "scan"
    /\ cursor > NumRecords
    /\ pc' = "matched"
    /\ UNCHANGED <<inputs, rng, locals, loop, attempts, history, caller, oi, filter>>

NextMatch == MatchBegin \/ MatchStep \/ MatchReturn

SpecMatch == InitMatch /\ [][NextMatch]_vars

\* ------------------------------------------- download_activitynet_split

\* _SPLIT_MAP.values(): the split names the check of line 75 lets through.
SupportedSplits == {SPLIT_MAP[k] : k \in DOMAIN SPLIT_MAP}

\* _get_all_classes(raw_annotations): the sorted leaves of the taxonomy.
all_classes == Ascending(Classes)

\* "if classes is not None and split == 'test': classes = None".
EffectiveClasses ==
    IF given_classes # None /\ split = "test" THEN None ELSE given_classes

\* Variant: without classes the database is handed over as the all-class
\* samples.
UnfilteredAsAllClass == [all |-> Ascending(RecordIds), any |-> <<>>]

\* Lines 117-119, the dicts when classes is None: the whole database, every
\* subset of it, is any_class_samples, and all_class_samples is empty.
Unfiltered == [all |-> <<>>, any |-> Ascending(RecordIds)]

\* Lines 138-141: num_samples.
NumSamples(num_downloaded, prev_ids) ==
    IF num_downloaded = 0 THEN None
    ELSE Some(num_downloaded + Cardinality(prev_ids))

\* Line 146: the returned tuple.
ReturnValue(num_samples) == <<num_samples, all_classes>>

\* The label sets of the records and the class lists tried: none of the
\* classes, one of them, all of them, and a list with a class that the
\* taxonomy does not have (class 0).
SomeLabelSets == {{}, {1}, Classes}
SomeClassLists == {{}, {1}, Classes, {0}}

\* download_activitynet_split is called on an annotation file, a videos
\* directory holding some of its videos, and a network on which every
\* download fails or every download succeeds. The split is one of the
\* three supported ones or ActivityNet's own name "training".
InitSplit ==
    /\ database \in [RecordIds -> [subset : Subsets, labels : SomeLabelSets]]
    /\ given_classes \in OptInts(SomeClassLists)
    /\ split \in SupportedSplits \cup {"training"}
    /\ prev_downloaded_ids \in SUBSET RecordIds
    /\ fetch_ok \in {{}, RecordIds \ prev_downloaded_ids}
    /\ max_samples \in {None, Some(1)}
    /\ shuffle = FALSE
    /\ seed = None
    /\ rng = 0
    /\ pc = "call"
    /\ classes = {}
    /\ cursor = 0
    /\ all_class_samples = <<>>
    /\ any_class_samples = <<>>
    /\ result = None
    /\ labels_json = <<>>
    /\ InitLocals
    /\ InitOpenImages
    /\ run = 1
    /\ first_plan = None

\* Lines 75-125: the checks of split and classes, and the choice between
\* the whole database and the class filter. (The version check and the
\* download of the annotation file are not modelled: the version is a
\* supported one and the file is there.)
SplitBegin ==
    /\ pc = "call"
    /\ IF split \notin SupportedSplits
       THEN /\ pc' = "ValueError"
            /\ UNCHANGED <<all_class_samples, any_class_samples, classes>>
       ELSE IF EffectiveClasses # None /\ (EffectiveClasses[1] \ Range(all_classes)) # {}
       THEN /\ pc' = "ValueError"
            /\ UNCHANGED <<all_class_samples, any_class_samples, classes>>
       ELSE IF EffectiveClasses = None
       THEN /\ any_class_samples' = Unfiltered.any
            /\ all_class_samples' = Unfiltered.all
            /\ pc' = "tier1"
            /\ UNCHANGED classes
       ELSE /\ classes' = EffectiveClasses[1]
            /\ pc' = "match"
            /\ UNCHANGED <<all_class_samples, any_class_samples>>
    /\ UNCHANGED <<prev_downloaded_ids, max_samples, seed, shuffle, fetch_ok, rng,
                   locals, loop, attempts, history, caller, oi, database, split,
                   cursor>>

\* Lines 123-136: the dicts of _get_matching_samples are handed to the
\* planner.
PlannerCall ==
    /\ pc = "matched"
    /\ pc' = "tier1"
    /\ UNCHANGED <<inputs, rng, locals, loop, attempts, history, filter, caller, oi>>

\* Lines 138-146: num_samples, the labels file and the return.
SplitReturn ==
    /\ pc = "done"
    /\ labels_json' = requested_samples
    /\ result' = Some(ReturnValue(NumSamples(num_downloaded_samples, prev_downloaded_ids)))
    /\ pc' = "returned"
    /\ UNCHANGED <<inputs, rng, locals, loop, attempts, history, filter, given_classes,
                   oi>>

NextSplit ==
    \/ SplitBegin \/ MatchBegin \/ MatchStep \/ MatchReturn \/ PlannerCall
    \/ Tier1 \/ Tier2 \/ Tier3Begin \/ Attempt \/ Tier3End \/ Tier4Begin \/ Tier4End
    \/ SplitReturn

SpecSplit == InitSplit /\ [][NextSplit]_vars

\* ---------------------------------------------------- load_open_images_v6

DEFAULT_LABEL_TYPES == <<"detections", "classifications", "relationships", "segmentations">>

\* _parse_label_types: the default for None and for an empty list, and a
\* ValueError, here None, for a label type that is not a default one.
ParseLabelTypes(label_types) ==
    LET given == IF label_types = None \/ label_types[1] = <<>>
                 THEN DEFAULT_LABEL_TYPES ELSE label_types[1]
    IN  IF Range(given) \subseteq Range(DEFAULT_LABEL_TYPES) THEN Some(given) ELSE None

\* _parse_splits: None when neither split nor splits is given, else the
\* split, if truthy, followed by the splits, if truthy.
ParseSplits(one, many) ==
    IF one = None /\ many = None THEN None
    ELSE Some((IF one # None /\ one[1] # "" THEN <<one[1]>> ELSE <<>>)
              \o (IF many # None /\ many[1] # <<>> THEN many[1] ELSE <<>>))

\* The stage of _load_open_images_split after the stage of a label type.
NextStage(stage) ==
    CASE stage = "detections" -> "classifications"
      [] stage = "classifications" -> "relationships"
      [] stage = "relationships" -> "segmentations"
      [] stage = "segmentations" -> "import"

\* The samples built from the list of valid ids of a split.
Samples(s, lst) == [k \in 1..Len(lst) |-> [split |-> s, id |-> lst[k]]]

\* The split that the loop of load_open_images_v6 is at.
CurrentSplit == splits_list[1][split_pos]

\* load_open_images_v6 is called with a split or none, a list of splits or
\* none, label types, and a cap; the generator is in any state, and the
\* dataset directory may hold an image of an earlier call.
InitOI ==
    /\ oi_split \in OptInts({"validation", ""})
    /\ oi_splits \in OptInts({<<>>, <<"train">>})
    /\ oi_label_types \in OptInts({<<>>, <<"detections">>, <<"detections", "bogus">>,
                                   <<"classifications", "segmentations">>})
    /\ max_samples \in CapValues
    /\ rng \in Seeds
    /\ images \in {{}, {[split |-> "train", id |-> 1]}}
    /\ splits_list = None
    /\ split_pos = 0
    /\ valid_ids = None
    /\ dataset = <<>>
    /\ pc = "oi_call"
    \* the loader reads nothing of the ActivityNet functions
    /\ all_class_samples = <<>>
    /\ any_class_samples = <<>>
    /\ prev_downloaded_ids = {}
    /\ fetch_ok = {}
    /\ shuffle = FALSE
    /\ seed = None
    /\ InitLocals
    /\ InitCaller
    /\ run = 1
    /\ first_plan = None
    /\ database = <<>>
    /\ classes = {}
    /\ split = "validation"
    /\ cursor = 0

\* Lines 65-131: the label types and the splits are parsed. (The class and
\* attribute maps are not modelled.)
OIBegin ==
    /\ pc = "oi_call"
    /\ IF ParseLabelTypes(oi_label_types) = None
       THEN /\ pc' = "ValueError"
            /\ UNCHANGED splits_list
       ELSE /\ splits_list' = ParseSplits(oi_split, oi_splits)
            /\ pc' = "for"
    /\ UNCHANGED <<inputs, rng, locals, loop, attempts, history, filter, caller,
                   oi_label_types, oi_split, oi_splits, split_pos, valid_ids, dataset,
                   images>>

\* Lines 133, 148 and 341: "for split in splits", which is a TypeError when
\* splits is None, the return after the last split, and the start of
\* _load_open_images_split.
OIFor ==
    /\ pc = "for"
    /\ IF splits_list = None
       THEN /\ pc' = "TypeError"
            /\ UNCHANGED <<split_pos, valid_ids>>
       ELSE IF split_pos >= Len(splits_list[1])
       THEN /\ pc' = "oi_returned"
            /\ UNCHANGED <<split_pos, valid_ids>>
       ELSE /\ split_pos' = split_pos + 1
            /\ valid_ids' = None
            /\ pc' = "detections"
    /\ UNCHANGED <<inputs, rng, locals, loop, attempts, history, filter, caller,
                   oi_label_types, oi_split, oi_splits, splits_list, dataset, images>>

\* Lines 343-433: for a label type that is asked for, the ids of the images
\* of the split that have labels of the type are read from the annotation
\* file, and valid_ids becomes them, or its intersection with them.
OILabels ==
    /\ pc \in Range(DEFAULT_LABEL_TYPES)
    /\ IF pc \in Range(ParseLabelTypes(oi_label_types)[1])
       THEN \E type_ids \in SUBSET IDS :
               valid_ids' = IF valid_ids = None THEN Some(type_ids)
                            ELSE Some(valid_ids[1] \cap type_ids)
       ELSE UNCHANGED valid_ids
    /\ pc' = NextStage(pc)
    /\ UNCHANGED <<inputs, rng, locals, loop, attempts, history, filter, caller,
                   oi_label_types, oi_split, oi_splits, splits_list, split_pos, dataset,
                   images>>

\* Lines 435-520: the list of the valid ids, shuffled and cut when
\* max_samples is truthy; a ValueError when it is empty; else the images
\* that are not in the directory are downloaded and the samples are added
\* to the dataset.
OIImport ==
    /\ pc = "import"
    /\ \E order \in Orderings(valid_ids[1]) :
          LET sh == IF Truthy(max_samples) THEN Shuffle(order, rng)
                    ELSE [list |-> order, rng |-> rng]
              lst == IF Truthy(max_samples) THEN Slice(sh.list, max_samples)
                     ELSE sh.list
          IN  /\ rng' = sh.rng
              /\ IF lst = <<>>
                 THEN /\ pc' = "ValueError"
                      /\ UNCHANGED <<dataset, images>>
                 ELSE /\ images' = images \cup Range(Samples(CurrentSplit, lst))
                      /\ dataset' = dataset \o Samples(CurrentSplit, lst)
                      /\ pc' = "for"
    /\ valid_ids' = None
    /\ UNCHANGED <<inputs, locals, loop, attempts, history, filter, caller,
                   oi_label_types, oi_split, oi_splits, splits_list, split_pos>>

NextOI == OIBegin \/ OIFor \/ OILabels \/ OIImport

SpecOI == InitOI /\ [][NextOI]_vars

\* ------------------------------------------------------------------ claims

Candidates == set_all_ids \cup set_any_ids
PresentAll == set_all_ids \cap prev_downloaded_ids
PresentAny == set_any_ids \cap prev_downloaded_ids
AbsentAll == set_all_ids \ prev_downloaded_ids
AbsentAny == set_any_ids \ prev_downloaded_ids
Selected == Range(requested_samples)
Attempted == Range(attempts)
CapGiven == max_samples # None /\ max_samples[1] >= 0
CapValid == max_samples = None \/ max_samples[1] >= 0

\* C1: with a non-negative max_samples, the planner never holds, and so
\* never returns, more selected records than max_samples, whatever the
\* downloads do.
C1_CapRespected ==
    CapGiven => Len(requested_samples) <= max_samples[1]

\* A return under a binding cap that the downloads of tier 3 or 4 filled up,
\* with a candidate that could still have been fetched left out.
C1_Witness ==
    /\ pc = "done"
    /\ CapGiven
    /\ Len(requested_samples) = max_samples[1]
    /\ num_downloaded_samples > 0
    /\ (fetch_ok \ Selected) # {}

\* C2: a negative max_samples is rejected at once: no tier runs, nothing is
\* selected and _do_download is never called.
C2_NegativeCapRejected ==
    (max_samples # None /\ max_samples[1] < 0) =>
        /\ pc \in {"tier1", "ValueError"}
        /\ requested_samples = <<>>
        /\ attempts = <<>>

\* C3: with max_samples None or non-negative the tiers run in strict order.
\* A downloaded some-class sample is selected only when every downloaded
\* all-class sample is; a download is attempted only when every downloaded
\* candidate is selected; a some-class sample is attempted only when every
\* all-class sample that is not downloaded has been attempted before it.
C3_TierOrder ==
    CapValid =>
        /\ (Selected \cap PresentAny # {}) => PresentAll \subseteq Selected
        /\ (attempts # <<>>) => (PresentAll \cup PresentAny) \subseteq Selected
        /\ \A j \in 1..Len(attempts) :
              attempts[j] \in set_any_ids =>
                 AbsentAll \subseteq {attempts[k] : k \in 1..(j - 1)}

\* A capped run in which tier 2 selected, tier 3 attempted and tier 4
\* attempted.
C3_Witness ==
    /\ pc = "done"
    /\ CapGiven
    /\ Selected \cap PresentAny # {}
    /\ Attempted \cap AbsentAll # {}
    /\ Attempted \cap AbsentAny # {}

\* C4: in one call of the planner _do_download is called at most once for
\* an id: no retry after a failure, no id tried by both tier 3 and tier 4.
C4_NoDuplicateFetch ==
    \A j, k \in 1..Len(attempts) : j # k => attempts[j] # attempts[k]

\* A return after a failed download in tier 3 that was followed by other
\* attempts, one of them in tier 4.
C4_Witness ==
    /\ pc = "done"
    /\ Len(attempts) >= 2
    /\ attempts[1] \in AbsentAll \ fetch_ok
    /\ Attempted \cap AbsentAny # {}

\* C5: when every download fails the planner still returns: no exception,
\* num_downloaded_samples is 0, only downloaded samples are selected, and
\* every failure was skipped (once the download tiers are entered, every
\* candidate that is not downloaded is attempted).
C5_FetchFailureSkip ==
    /\ pc # "NameError"
    /\ (fetch_ok = {} /\ pc = "done") =>
          /\ num_downloaded_samples = 0
          /\ Selected \subseteq (PresentAll \cup PresentAny)
          /\ IF MoreRequested(requested_num)
             THEN Attempted = AbsentAll \cup AbsentAny
             ELSE attempts = <<>>

\* A return after at least two failed downloads, with a downloaded sample
\* selected.
C5_Witness ==
    /\ pc = "done"
    /\ fetch_ok = {}
    /\ Len(attempts) >= 2
    /\ requested_samples # <<>>

\* C6: with max_samples None the planner selects every downloaded
\* candidate, attempts every candidate that is not downloaded exactly once,
\* and selects exactly those of them whose download succeeded.
C6_Unbounded ==
    (max_samples = None /\ pc = "done") =>
        /\ Selected = (Candidates \cap prev_downloaded_ids)
                         \cup ((Candidates \ prev_downloaded_ids) \cap fetch_ok)
        /\ Attempted = Candidates \ prev_downloaded_ids
        /\ Len(attempts) = Cardinality(Candidates \ prev_downloaded_ids)
        /\ num_downloaded_samples = Cardinality((Candidates \ prev_downloaded_ids) \cap fetch_ok)

\* An uncapped return with a downloaded candidate, a fetched one and one
\* whose download failed.
C6_Witness ==
    /\ pc = "done"
    /\ max_samples = None
    /\ Candidates \cap prev_downloaded_ids # {}
    /\ num_downloaded_samples > 0
    /\ (Attempted \ fetch_ok) # {}

\* C9: _do_download is never called for an id of prev_downloaded_ids, and
\* the list handed to _attempt_to_download holds none.
C9_NoFetchOfPresent ==
    /\ Attempted \cap prev_downloaded_ids = {}
    /\ Range(ids) \cap prev_downloaded_ids = {}

\* A return after downloads were attempted while downloaded candidates of
\* both kinds were there.
C9_Witness ==
    /\ pc = "done"
    /\ attempts # <<>>
    /\ PresentAll # {}
    /\ PresentAny # {}

\* The elements of seq that are in S, in the order of seq.
Restrict(seq, S) ==
    LET Keep(x) == x \in S IN SelectSeq(seq, Keep)

IsPrefix(a, b) == Len(a) <= Len(b) /\ a = SubSeq(b, 1, Len(a))

\* C7: with shuffle and an explicit seed, a second call on the same inputs
\* with the same download outcomes returns the same selected records, in
\* the same order.
C7_SeededDeterminism ==
    (run = 2 /\ pc = "done" /\ shuffle /\ seed # None) =>
        requested_samples = first_plan[1].selected

\* C8: without shuffle each tier takes its candidates in the order of the
\* input dict: what a tier selected, or attempted to download, is a prefix
\* of its candidates in dict order, and a second call on the same inputs
\* returns the same plan.
C8_InputOrder ==
    ~shuffle =>
        /\ IsPrefix(Restrict(requested_samples, PresentAll),
                    Restrict(all_class_samples, prev_downloaded_ids))
        /\ IsPrefix(Restrict(requested_samples, PresentAny),
                    Restrict(any_class_samples, prev_downloaded_ids))
        /\ IsPrefix(Restrict(attempts, set_all_ids),
                    Restrict(all_class_samples, IDS \ prev_downloaded_ids))
        /\ IsPrefix(Restrict(attempts, set_any_ids),
                    Restrict(any_class_samples, IDS \ prev_downloaded_ids))
        /\ (run = 2 /\ pc = "done") => Plan = first_plan[1]

Labels(i) == database[i].labels
InSplit(i) == split \in DOMAIN SPLIT_MAP /\ SPLIT_MAP[split] = database[i].subset
Scanned == IF pc = "matched" THEN RecordIds ELSE 1..(cursor - 1)

\* C10: _get_matching_samples puts a record in at most one of the two
\* dicts; a record of the split with all the requested classes is in the
\* all-class dict and not in the any-class dict; a record of the any-class
\* dict has at least one but not all of the requested classes.
C10_OneMembershipClass ==
    /\ Range(all_class_samples) \cap Range(any_class_samples) = {}
    /\ \A i \in Scanned :
          (pc # "KeyError" /\ InSplit(i) /\ classes \subseteq Labels(i)) =>
              i \in Range(all_class_samples) /\ i \notin Range(any_class_samples)
    /\ \A i \in Range(any_class_samples) :
          /\ classes \cap Labels(i) # {}
          /\ ~(classes \subseteq Labels(i))

\* A return for a filter of two classes with a record in each dict.
C10_Witness ==
    /\ pc = "matched"
    /\ Cardinality(classes) = 2
    /\ all_class_samples # <<>>
    /\ any_class_samples # <<>>

\* C18: under a non-negative max_samples, _do_download is called only while
\* fewer records than max_samples are selected (those of the earlier tiers
\* plus those downloaded so far in this one); tier 4 downloads only when
\* tier 3 left budget; with max_samples 0 it is never called.
C18_NoFetchWithoutBudget ==
    CapGiven =>
        /\ pc \in {"dl3", "dl4"} =>
              /\ idx <= Len(ids)
              /\ Len(requested_samples) + Len(downloaded) < max_samples[1]
        /\ pc \in {"dl4", "ret4"} => Len(requested_samples) < max_samples[1]
        /\ attempts # <<>> => max_samples[1] > 0
        /\ Len(attempts) > 0 =>
              Cardinality(Selected \cap prev_downloaded_ids)
                 + Cardinality({attempts[k] : k \in 1..(Len(attempts) - 1)} \cap fetch_ok)
                 < max_samples[1]

\* A return where the downloads stopped on the cap: the budget was reached
\* by a download while candidates that are not downloaded were left untried.
C18_Witness ==
    /\ pc = "done"
    /\ CapGiven
    /\ num_downloaded_samples > 0
    /\ Len(requested_samples) = max_samples[1]
    /\ (Candidates \ prev_downloaded_ids) \ Attempted # {}

\* C19: under a non-negative max_samples the planner returns fewer records
\* than max_samples only when every tier ran out of candidates: every
\* downloaded candidate is selected and every other candidate was
\* attempted; the number returned is the smaller of max_samples and the
\* number of candidates that are downloaded or can be fetched. It is a
\* normal return.
C19_ShortOnlyWhenExhausted ==
    /\ pc # "NameError"
    /\ (pc = "done" /\ CapGiven) =>
          /\ Len(requested_samples) < max_samples[1] =>
                /\ (PresentAll \cup PresentAny) \subseteq Selected
                /\ Attempted = AbsentAll \cup AbsentAny
          /\ Len(requested_samples) =
                Min(max_samples[1],
                    Cardinality(PresentAll \cup PresentAny)
                       + Cardinality((AbsentAll \cup AbsentAny) \cap fetch_ok))

\* A return short of the cap with a record selected and a download that
\* failed.
C19_Witness ==
    /\ pc = "done"
    /\ CapGiven
    /\ 0 < Len(requested_samples)
    /\ Len(requested_samples) < max_samples[1]
    /\ Attempted \ fetch_ok # {}

\* ---------------------------------- claims on download_activitynet_split

PlannerEntered ==
    pc \in {"tier1", "tier2", "tier3", "dl3", "ret3", "tier4", "dl4", "ret4",
            "done", "returned"}
ExistingClasses == given_classes = None \/ given_classes[1] \subseteq Range(all_classes)
BelongsToSplit(i) == SPLIT_MAP[database[i].subset] = split

\* C11, as stated: without a class filter the planner is given the whole
\* database as all_class_samples and an empty any_class_samples. The code
\* does the opposite, so this is violated.
C11_UnfilteredAsFull ==
    (EffectiveClasses = None /\ PlannerEntered) =>
        /\ set_all_ids = RecordIds
        /\ any_class_samples = <<>>

\* C11, amended: without a class filter (classes None, or the split "test")
\* the planner is given the whole database as any_class_samples and an
\* empty all_class_samples: tier 3 has nothing to attempt, and every record
\* selected or attempted is one of any_class_samples, selected by tier 2 or
\* fetched by tier 4.
C11_UnfilteredAsAny ==
    (EffectiveClasses = None /\ PlannerEntered) =>
        /\ set_any_ids = RecordIds
        /\ all_class_samples = <<>>
        /\ pc # "dl3"
        /\ dl_all_class_ids = <<>>
        /\ Selected \subseteq set_any_ids
        /\ Attempted \subseteq set_any_ids
        /\ pc \in {"done", "returned"} =>
              Selected \ prev_downloaded_ids = Attempted \cap fetch_ok

\* A return without a class filter after a present record was selected
\* and an absent one fetched.
C11_Witness ==
    /\ pc = "returned"
    /\ given_classes = None
    /\ Selected \cap prev_downloaded_ids # {}
    /\ Attempted \cap fetch_ok # {}

\* C12: with each of the splits "train", "validation" and "test", and
\* classes that exist or no classes, the call fails neither with a
\* ValueError nor with a KeyError. Violated: "train" with a class list is a
\* KeyError in _get_matching_samples.
C12_SplitsSupported ==
    (split \in {"train", "validation", "test"} /\ ExistingClasses) =>
        pc \notin {"KeyError", "ValueError"}

\* C13: the call returns a tuple of three, (num_samples, classes,
\* did_download), with num_samples and classes None when no video was
\* downloaded, and did_download true exactly when one was. Violated: the
\* tuple has two elements and the classes are never None.
C13_ReturnTriple ==
    pc = "returned" =>
        /\ Len(result[1]) = 3
        /\ num_downloaded_samples = 0 => result[1][1] = None /\ result[1][2] = None
        /\ num_downloaded_samples > 0 =>
              result[1][1] = Some(num_downloaded_samples + Cardinality(prev_downloaded_ids))

C15_OnlyRequestedSplit ==
    split \in SupportedSplits =>
        \A i \in Selected \cup Attempted : BelongsToSplit(i)

\* ------------------------------------------ claims on load_open_images_v6

SplitNames == {"train", "validation", "test"}
SamplesOf(s) == {k \in 1..Len(dataset) : dataset[k].split = s}

\* C16: called with neither split nor splits, and label types that are
\* supported, the loader goes through the three splits train, validation
\* and test and does not fail on the missing splits. Violated:
\* _parse_splits returns None, and the loop over it is a TypeError.
C16_AllSplitsByDefault ==
    (/\ oi_split = None
     /\ oi_splits = None
     /\ ParseLabelTypes(oi_label_types) # None
     /\ pc # "oi_call") =>
        /\ pc # "TypeError"
        /\ pc \notin {"for", "TypeError"} =>
              splits_list # None /\ Range(splits_list[1]) = SplitNames

\* C17: with a max_samples of 0 or more, the dataset never holds more than
\* max_samples samples of a split. Violated by 0, which "if max_samples"
\* takes for no cap.
C17_CapPerSplit ==
    CapGiven => \A s \in SplitNames : Cardinality(SamplesOf(s)) <= max_samples[1]

====
